---- MODULE Spec2Model ----
(***************************************************************************)
(* Model of binwalk's SmartSignature (src/src/binwalk/core/smart.py): the  *)
(* parser of "smart tags" embedded in libmagic result strings.             *)
(*                                                                         *)
(* Strings are TLA+ strings, handled character by character with Len,      *)
(* SubSeq and \o.  Positions are 1-based; 0 stands for Python's -1 (not    *)
(* found).  One parse() call is the chain of steps                         *)
(*   RAW -> VALIDATED -> MATH_RESOLVED -> RAW_STRING_RESOLVED ->           *)
(*   LEN_RESOLVED -> FIELDS_EXTRACTED -> (DUPLICATE | FINAL)               *)
(* or RAW -> PASSTHROUGH, each step the only one enabled at its position.  *)
(***************************************************************************)
EXTENDS Integers, Sequences, FiniteSets, TLC

VARIABLES
    ignore_smart_signatures,  \* self.ignore_smart_signatures
    last_one_of_many,         \* self.last_one_of_many ([set |-> FALSE] is None)
    valid,                    \* self.valid
    pc,                       \* position inside parse()
    raw,                      \* the argument parse() was called with
    data,                     \* parse()'s local working string
    results,                  \* parse()'s local results dictionary
    plausible,                \* verdict of self.filter.valid_result in this call
    prev,                     \* history: the previous completed call
    passes                    \* history: the passes this call has completed

vars == <<ignore_smart_signatures, last_one_of_many, valid, pc, raw, data,
          results, plausible, prev, passes>>

(***************************************************************************)
(* Python string primitives.                                               *)
(***************************************************************************)
Char(s, i) == SubSeq(s, i, i)

From(s, i) == SubSeq(s, i, Len(s))

Upto(s, i) == SubSeq(s, 1, i)

\* positions at which sub occurs in s
Occurs(s, sub) ==
    {i \in 1..(Len(s) - Len(sub) + 1) : SubSeq(s, i, i + Len(sub) - 1) = sub}

\* `sub in s`
Contains(s, sub) == Occurs(s, sub) # {}

\* s.find(sub), 1-based, 0 when absent
Find(s, sub) ==
    LET occ == Occurs(s, sub)
    IN  IF occ = {} THEN 0 ELSE CHOOSE i \in occ : \A j \in occ : i <= j

\* s.startswith(p)
StartsWith(s, p) == Len(p) <= Len(s) /\ Upto(s, Len(p)) = p

\* s.split(sep)[0]
SplitFirst(s, sep) ==
    LET i == Find(s, sep) IN IF i = 0 THEN s ELSE Upto(s, i - 1)

\* s.split(sep)[1], for s containing sep
SplitSecond(s, sep) ==
    SplitFirst(From(s, Find(s, sep) + Len(sep)), sep)

RECURSIVE Replace(_, _, _)
\* s.replace(old, new): every non-overlapping occurrence, left to right
Replace(s, old, new) ==
    LET i == Find(s, old)
    IN  IF i = 0 \/ old = ""
        THEN s
        ELSE Upto(s, i - 1) \o new \o Replace(From(s, i + Len(old)), old, new)

RECURSIVE StripChar(_, _)
\* s.strip(c)
StripChar(s, c) ==
    IF s = "" THEN s
    ELSE IF Char(s, 1) = c THEN StripChar(From(s, 2), c)
    ELSE IF Char(s, Len(s)) = c THEN StripChar(Upto(s, Len(s) - 1), c)
    ELSE s

(***************************************************************************)
(* Numbers and their text.                                                 *)
(***************************************************************************)
Digits == <<"0", "1", "2", "3", "4", "5", "6", "7", "8", "9">>

HexLetters == <<"a", "b", "c", "d", "e", "f">>

IsDigit(c) == \E k \in 1..10 : Digits[k] = c

DigitVal(c) == (CHOOSE k \in 1..10 : Digits[k] = c) - 1

IsHexDigit(c) == IsDigit(c) \/ \E k \in 1..6 : HexLetters[k] = c

HexVal(c) ==
    IF IsDigit(c) THEN DigitVal(c)
    ELSE 9 + (CHOOSE k \in 1..6 : HexLetters[k] = c)

AllDigits(s) == s # "" /\ \A i \in 1..Len(s) : IsDigit(Char(s, i))

AllHexDigits(s) == s # "" /\ \A i \in 1..Len(s) : IsHexDigit(Char(s, i))

RECURSIVE DecVal(_)
DecVal(s) ==
    IF s = "" THEN 0
    ELSE 10 * DecVal(Upto(s, Len(s) - 1)) + DigitVal(Char(s, Len(s)))

RECURSIVE HexNum(_)
HexNum(s) ==
    IF s = "" THEN 0
    ELSE 16 * HexNum(Upto(s, Len(s) - 1)) + HexVal(Char(s, Len(s)))

RECURSIVE NatText(_)
NatText(n) ==
    IF n < 10 THEN Digits[n + 1] ELSE NatText(n \div 10) \o Digits[(n % 10) + 1]

\* "%d" % n
ToDecimal(n) == IF n < 0 THEN "-" \o NatText(-n) ELSE NatText(n)

(***************************************************************************)
(* Collaborators from binwalk.core.common and the MagicFilter.             *)
(***************************************************************************)
QUOTE == "\""

\* get_quoted_strings: everything between the first and the last double
\* quote; blank when there is no quoted data
get_quoted_strings(s) ==
    LET q == Occurs(s, QUOTE)
    IN  IF Cardinality(q) < 2 THEN ""
        ELSE LET first == CHOOSE i \in q : \A j \in q : i <= j
                 last  == CHOOSE i \in q : \A j \in q : i >= j
             IN  SubSeq(s, first + 1, last - 1)

NoValue == [none |-> TRUE, value |-> 0]

\* length of the longest all-digit prefix of s
DigitRun(s) ==
    LET stops == {i \in 1..Len(s) : ~IsDigit(Char(s, i))}
    IN  IF stops = {} THEN Len(s)
        ELSE (CHOOSE i \in stops : \A j \in stops : i <= j) - 1

RECURSIVE Unary(_)
\* a signed decimal literal at the head of s, and what follows it
Unary(s) ==
    IF s = "" THEN [none |-> TRUE, value |-> 0, rest |-> ""]
    ELSE IF Char(s, 1) = "-"
    THEN LET u == Unary(From(s, 2))
         IN  [none |-> u.none, value |-> 0 - u.value, rest |-> u.rest]
    ELSE IF Char(s, 1) = "+" THEN Unary(From(s, 2))
    ELSE LET n == DigitRun(s)
         IN  IF n = 0 \/ (n > 1 /\ Char(s, 1) = "0")
             THEN [none |-> TRUE, value |-> 0, rest |-> ""]
             ELSE [none |-> FALSE, value |-> DecVal(Upto(s, n)),
                   rest |-> From(s, n + 1)]

RECURSIVE Terms(_, _)
\* the rest of a sum: (("+" | "-") unary)*
Terms(acc, s) ==
    IF s = "" THEN [none |-> FALSE, value |-> acc]
    ELSE IF Char(s, 1) \in {"+", "-"}
    THEN LET u == Unary(From(s, 2))
         IN  IF u.none THEN NoValue
             ELSE Terms(IF Char(s, 1) = "+" THEN acc + u.value
                        ELSE acc - u.value, u.rest)
    ELSE NoValue

\* MathExpression(expression).value: sums and differences of decimal
\* literals evaluate; anything else has no value (None)
MathExpression(expression) ==
    IF expression = "" THEN NoValue
    ELSE LET u == Unary(expression)
         IN  IF u.none THEN NoValue ELSE Terms(u.value, u.rest)

\* str2int: int(string), else int(string, 16), else an exception (none)
str2int(string) ==
    LET neg  == string # "" /\ Char(string, 1) = "-"
        body == IF string # "" /\ Char(string, 1) \in {"-", "+"}
                THEN From(string, 2) ELSE string
        hex  == IF Len(body) > 2 /\ Upto(body, 2) = "0x" THEN From(body, 3)
                ELSE body
        sign(n) == IF neg THEN 0 - n ELSE n
    IN  IF AllDigits(body) THEN [none |-> FALSE, value |-> sign(DecVal(body))]
        ELSE IF AllHexDigits(hex)
        THEN [none |-> FALSE, value |-> sign(HexNum(hex))]
        ELSE NoValue

(***************************************************************************)
(* SmartSignature.                                                         *)
(***************************************************************************)
KEYWORD_DELIM_START == "{"

KEYWORD_DELIM_END == "}"

\* the keyword names, in the order the dictionary literal lists them
KeywordNames ==
    <<"jump", "filename", "filesize", "raw-string", "string-len", "raw-size",
      "adjust", "delay", "year", "epoch", "math", "raw-replace",
      "one-of-many", "string-len-replace">>

KeywordText ==
    <<"jump-to-offset:", "file-name:", "file-size:", "raw-string:",
      "string-len:", "raw-string-length:", "offset-adjust:", "extract-delay:",
      "file-year:", "file-epoch:", "math:",
      "raw-replace" \o KEYWORD_DELIM_END, "one-of-many" \o KEYWORD_DELIM_END,
      "string-len" \o KEYWORD_DELIM_END>>

KEYWORDS ==
    [name \in {KeywordNames[k] : k \in 1..Len(KeywordNames)} |->
        KEYWORD_DELIM_START \o
        KeywordText[CHOOSE k \in 1..Len(KeywordNames) : KeywordNames[k] = name]]

\* the orders in which iterator(self.KEYWORDS) may yield the keywords: the
\* listed order and its reverse stand for the dictionary's unspecified order
KeywordOrders ==
    {KeywordNames,
     [k \in 1..Len(KeywordNames) |-> KeywordNames[Len(KeywordNames) + 1 - k]]}

Defaults ==
    [offset |-> "", description |-> "", name |-> "", delay |-> "",
     extract |-> "", jump |-> 0, size |-> 0, adjust |-> 0, year |-> 0,
     epoch |-> 0, valid |-> TRUE]

None == [set |-> FALSE, key |-> ""]

\* faulty variant of _is_valid: looks for the delimiter at the start of the
\* quoted data only
_is_valid_DelimAtStart(d) ==
    LET quoted_data == get_quoted_strings(d)
    IN  ~(/\ quoted_data # ""
          /\ StartsWith(quoted_data, KEYWORD_DELIM_START)
          /\ \E name \in DOMAIN KEYWORDS : Contains(quoted_data, KEYWORDS[name]))

_is_valid(d) ==
    LET quoted_data == get_quoted_strings(d)
    IN  ~(/\ quoted_data # ""
          /\ Contains(quoted_data, KEYWORD_DELIM_START)
          /\ \E name \in DOMAIN KEYWORDS : Contains(quoted_data, KEYWORDS[name]))

_get_keyword_arg(d, keyword) ==
    IF keyword \in DOMAIN KEYWORDS /\ Contains(d, KEYWORDS[keyword])
    THEN SplitFirst(SplitSecond(d, KEYWORDS[keyword]), KEYWORD_DELIM_END)
    ELSE ""

\* the value, and whether self.valid was cleared
_get_math_arg(d, keyword) ==
    LET arg == _get_keyword_arg(d, keyword)
        m   == MathExpression(arg)
    IN  IF arg = "" THEN [value |-> 0, failed |-> FALSE]
        ELSE IF m.none THEN [value |-> 0, failed |-> TRUE]
        ELSE [value |-> m.value, failed |-> FALSE]

\* faulty variant of the loop body: the replaced span stops short of the
\* closing delimiter
ReplaceMathsBody_KeepsDelim(d) ==
    LET arg == _get_keyword_arg(d, "math")
        v   == KEYWORDS["math"] \o arg
        math_value == ToDecimal(_get_math_arg(d, "math").value)
    IN  Replace(d, v, math_value)

\* one iteration of the loop of _replace_maths
ReplaceMathsBody(d) ==
    LET arg == _get_keyword_arg(d, "math")
        v   == KEYWORDS["math"] \o arg \o KEYWORD_DELIM_END
        math_value == ToDecimal(_get_math_arg(d, "math").value)
    IN  Replace(d, v, math_value)

\* faulty variant of RawSizeMatches: the pattern without its closing anchor,
\* '^-?[0-9]+', which accepts any text that begins with a number
RawSizeMatches_Unanchored(raw_size) ==
    LET body == IF raw_size # "" /\ Char(raw_size, 1) = "-"
                THEN From(raw_size, 2) ELSE raw_size
    IN  body # "" /\ IsDigit(Char(body, 1))

\* re.match('^-?[0-9]+$', raw_size)
RawSizeMatches(raw_size) ==
    AllDigits(IF raw_size # "" /\ Char(raw_size, 1) = "-"
              THEN From(raw_size, 2) ELSE raw_size)

\* s[:n]
Slice(s, n) ==
    IF n >= 0 THEN Upto(s, IF n < Len(s) THEN n ELSE Len(s))
    ELSE Upto(s, IF Len(s) + n > 0 THEN Len(s) + n ELSE 0)

\* faulty variant of _parse_raw_strings: substitutes the markers and keeps
\* the raw-string tag and what follows it
_parse_raw_strings_NoTruncate(ignore, d) ==
    IF ~ignore /\ _is_valid(d)
    THEN LET raw_string == _get_keyword_arg(d, "raw-string")
             raw_size   == _get_keyword_arg(d, "raw-size")
         IN  IF raw_string # "" /\ RawSizeMatches(raw_size)
             THEN Replace(d, KEYWORDS["raw-replace"],
                          QUOTE \o Slice(raw_string, str2int(raw_size).value)
                                \o QUOTE)
             ELSE d
    ELSE d

_parse_raw_strings(ignore, d) ==
    IF ~ignore /\ _is_valid(d)
    THEN LET raw_string == _get_keyword_arg(d, "raw-string")
             raw_size   == _get_keyword_arg(d, "raw-size")
         IN  IF raw_string # "" /\ RawSizeMatches(raw_size)
             THEN Replace(Upto(d, Find(d, KEYWORDS["raw-string"]) - 1),
                          KEYWORDS["raw-replace"],
                          QUOTE \o Slice(raw_string, str2int(raw_size).value)
                                \o QUOTE)
             ELSE d
    ELSE d

\* faulty variant of _parse_string_len: substitutes the markers and keeps
\* the string-len tag and what follows it
_parse_string_len_NoTruncate(ignore, d) ==
    IF ~ignore /\ _is_valid(d)
    THEN LET raw_string == _get_keyword_arg(d, "string-len")
             string_length == ToDecimal(Len(raw_string))
         IN  IF raw_string # ""
             THEN Replace(d, KEYWORDS["string-len-replace"], string_length)
             ELSE d
    ELSE d

_parse_string_len(ignore, d) ==
    IF ~ignore /\ _is_valid(d)
    THEN LET raw_string == _get_keyword_arg(d, "string-len")
             string_length == ToDecimal(Len(raw_string))
         IN  IF raw_string # ""
             THEN Replace(SplitFirst(d, KEYWORDS["string-len"]),
                          KEYWORDS["string-len-replace"], string_length)
             ELSE d
    ELSE d

\* the body of the loop of _strip_tags, for one keyword
StripKeyword(d, keyword) ==
    LET start == Find(d, keyword)
        end   == IF start = 0 THEN 0 ELSE Find(From(d, start), KEYWORD_DELIM_END)
    IN  IF start # 0 /\ end # 0
        THEN Replace(d, SubSeq(d, start, start + end - 1), "")
        ELSE d

RECURSIVE StripFrom(_, _, _)
StripFrom(d, order, k) ==
    IF k > Len(order) THEN d
    ELSE StripFrom(StripKeyword(d, KEYWORDS[order[k]]), order, k + 1)

_strip_tags(ignore, d, order) ==
    IF ~ignore THEN StripFrom(d, order, 1) ELSE d

\* faulty variant of _one_of_many: a duplicate must equal the stored key
_one_of_many_ExactMatch(d, valid_result, last) ==
    IF valid_result
    THEN IF last.set /\ d = last.key
         THEN [dup |-> TRUE, last |-> last]
         ELSE IF Contains(d, KEYWORDS["one-of-many"])
         THEN [dup |-> FALSE, last |-> [set |-> TRUE, key |-> SplitFirst(d, ",")]]
         ELSE [dup |-> FALSE, last |-> None]
    ELSE [dup |-> FALSE, last |-> last]

\* faulty variant of _one_of_many: the filter's verdict is not consulted
_one_of_many_FilterIgnored(d, valid_result, last) ==
    IF last.set /\ StartsWith(d, last.key)
    THEN [dup |-> TRUE, last |-> last]
    ELSE IF Contains(d, KEYWORDS["one-of-many"])
    THEN [dup |-> FALSE, last |-> [set |-> TRUE, key |-> SplitFirst(d, ",")]]
    ELSE [dup |-> FALSE, last |-> None]

\* what _one_of_many returns, and what it leaves in self.last_one_of_many
_one_of_many(d, valid_result, last) ==
    IF valid_result
    THEN IF last.set /\ StartsWith(d, last.key)
         THEN [dup |-> TRUE, last |-> last]
         ELSE IF Contains(d, KEYWORDS["one-of-many"])
         THEN [dup |-> FALSE, last |-> [set |-> TRUE, key |-> SplitFirst(d, ",")]]
         ELSE [dup |-> FALSE, last |-> None]
    ELSE [dup |-> FALSE, last |-> last]

(***************************************************************************)
(* The result strings the matcher hands to parse().                        *)
(***************************************************************************)
MaxNum == 4

MaxRawSize == 5

Tag(keyword, arg) == KEYWORDS[keyword] \o arg \o KEYWORD_DELIM_END

NumericKeywords == {"adjust", "filesize", "year", "epoch", "jump"}

\* sums and differences of two small numbers
MathExprs ==
    {ToDecimal(a) \o op \o ToDecimal(b) :
        a \in 0..MaxNum, b \in 0..MaxNum, op \in {"+", "-"}}

RawSizes == {ToDecimal(n) : n \in -1..MaxRawSize} \cup {"99", "5x"}

RawPayloads ==
    {"HELLOWORLD", "abc", "{file-name:x", "{extract-delay:x",
     "{jump-to-offset:9"}

NumericArgs == {"7", "zz", "1+2", "ab", "-3"}

TagFreeInputs ==
    {"", "ab", "ab, d", "xy, d", ", z", "\"{\" x", "say \"hi\"", "a}b{c"}

QuotedInputs ==
    {QUOTE \o KEYWORDS[name] \o "0}" \o QUOTE \o " trailer " \o t :
        name \in DOMAIN KEYWORDS, t \in {Tag("filename", "\"x\""), ""}}
    \cup {Tag("jump", "3") \o "\"{math:1+1}\"",
          "\"a\" " \o Tag("filesize", "4") \o " \"b\"",
          "\"{x}\" " \o Tag("jump", "3"),
          "\"{\" ab" \o KEYWORDS["one-of-many"] \o ", c",
          Tag("filename", "\"x\"") \o " named"}

MathInputs ==
    {Tag("math", e) \o Tag("jump", Tag("math", e)) : e \in MathExprs}
    \cup {Tag("math", "1+2") \o " and " \o Tag("math", "2-4") \o ", "
              \o Tag("adjust", Tag("math", "1+2")),
          Tag("math", "zz") \o Tag("jump", "5"),
          Tag("filesize", Tag("math", "2+2")),
          Tag("jump", "3-" \o Tag("math", "1-2")),
          KEYWORDS["math"] \o "4+4",
          Tag("math", Tag("math", "1+1"))}

RawInputs ==
    {KEYWORDS["raw-replace"] \o Tag("raw-string", p) \o Tag("raw-size", n) :
        p \in RawPayloads, n \in RawSizes}
    \cup {KEYWORDS["string-len-replace"] \o KEYWORDS["raw-replace"]
              \o Tag("string-len", "ab") \o Tag("raw-string", p)
              \o Tag("raw-size", n) :
          p \in {"abc", "{file-name:x"}, n \in RawSizes}
    \cup {"got " \o KEYWORDS["raw-replace"] \o " and " \o KEYWORDS["raw-replace"]
              \o Tag("raw-size", n) \o Tag("raw-string", "HELLOWORLD")
              \o "tail" \o Tag("jump", "7") :
          n \in RawSizes}
    \cup {KEYWORDS["raw-replace"] \o Tag("raw-string", "HELLOWORLD"),
          KEYWORDS["raw-replace"] \o Tag("raw-string", "")
              \o Tag("raw-size", "5") \o Tag("jump", "7"),
          KEYWORDS["raw-replace"] \o Tag("raw-string", "HELLOWORLD")
              \o Tag("raw-size", Tag("math", "2+3"))}

StringLenInputs ==
    {KEYWORDS["string-len-replace"] \o Tag("string-len", "abc"),
     "n=" \o KEYWORDS["string-len-replace"] \o " "
         \o KEYWORDS["string-len-replace"] \o Tag("string-len", "hello")
         \o "trail" \o Tag("year", "1999"),
     KEYWORDS["string-len-replace"] \o Tag("string-len", ""),
     KEYWORDS["string-len-replace"] \o KEYWORDS["string-len"] \o "ab"}

FieldInputs ==
    {Tag(k, a) \o Tag("delay", "gz") \o Tag("filename", "\"x\"") \o " end" :
        k \in NumericKeywords, a \in NumericArgs}
    \cup {Tag("adjust", a) \o Tag("filesize", a) \o Tag("year", a)
              \o Tag("epoch", a) \o Tag("delay", "gz") \o Tag("jump", a) :
          a \in NumericArgs}
    \cup {Tag("adjust", "zz") \o Tag("jump", "7") \o Tag("year", "1999"),
          Tag("year", "zz") \o Tag("jump", "7") \o Tag("filesize", "12"),
          Tag("epoch", "zz") \o Tag("adjust", "2")}

OneOfManyInputs ==
    {"ab" \o KEYWORDS["one-of-many"] \o ", c" \o Tag("jump", "3"),
     "ab" \o KEYWORDS["one-of-many"] \o ", d" \o Tag("jump", "4")
         \o Tag("adjust", "2") \o Tag("filename", "\"x\""),
     "ab" \o KEYWORDS["one-of-many"] \o ", e" \o Tag("jump", "zz"),
     "ab, c" \o KEYWORDS["one-of-many"],
     "," \o KEYWORDS["one-of-many"] \o Tag("jump", "2"),
     "xy" \o KEYWORDS["one-of-many"]}

RepeatedTagInputs ==
    {Tag("filename", "a") \o Tag("filename", "b"),
     KEYWORDS["filename"] \o "a",
     "{fi" \o Tag("year", "1") \o "le-name:y}",
     KEYWORDS["filename"] \o "a" \o KEYWORDS["one-of-many"],
     Tag("jump", "1") \o Tag("jump", "1")}

Inputs ==
    TagFreeInputs \cup QuotedInputs \cup MathInputs \cup RawInputs
    \cup StringLenInputs \cup FieldInputs \cup OneOfManyInputs
    \cup RepeatedTagInputs

(***************************************************************************)
(* The parser instance and parse(), step by step.                          *)
(***************************************************************************)
\* history of the previous call: whether it was an accepted, plausible
\* one-of-many result, then its text before the first comma, and the
\* value self.valid was left with (True after __init__)
NoCall == [marked |-> FALSE, head |-> "", valid |-> TRUE]

\* the passes of parse(), by the method each one calls
PassNames ==
    <<"_replace_maths", "_parse_raw_strings", "_parse_string_len",
      "_get_keyword_arg", "_one_of_many", "_strip_tags">>

\* __init__
Init ==
    /\ ignore_smart_signatures \in BOOLEAN
    /\ last_one_of_many = None
    /\ valid = TRUE
    /\ pc = "IDLE"
    /\ raw = ""
    /\ data = ""
    /\ results = Defaults
    /\ plausible = FALSE
    /\ prev = NoCall
    /\ passes = <<>>

\* faulty variant of parse_begin: self.valid is not reset
parse_begin_NoReset(d) ==
    /\ pc = "IDLE"
    /\ pc' = "RAW"
    /\ raw' = d
    /\ data' = d
    /\ results' = Defaults
    /\ passes' = <<>>
    /\ UNCHANGED <<ignore_smart_signatures, last_one_of_many, valid,
                   plausible, prev>>

\* parse(d) is entered: the results dictionary and self.valid are reset
parse_begin(d) ==
    /\ pc = "IDLE"
    /\ pc' = "RAW"
    /\ raw' = d
    /\ data' = d
    /\ results' = Defaults
    /\ valid' = TRUE
    /\ passes' = <<>>
    /\ UNCHANGED <<ignore_smart_signatures, last_one_of_many, plausible, prev>>

\* faulty variant of validate: the disabled switch is not consulted
validate_SwitchIgnored ==
    /\ pc = "RAW"
    /\ IF ~_is_valid(data)
       THEN /\ results' = [results EXCEPT !.description = data, !.valid = valid]
            /\ pc' = "PASSTHROUGH"
       ELSE /\ results' = results
            /\ pc' = "VALIDATED"
    /\ UNCHANGED <<ignore_smart_signatures, last_one_of_many, valid, raw, data,
                   plausible, prev, passes>>

\* the test that opens parse(): disabled or rejected strings pass through
validate ==
    /\ pc = "RAW"
    /\ IF ignore_smart_signatures \/ ~_is_valid(data)
       THEN /\ results' = [results EXCEPT !.description = data, !.valid = valid]
            /\ pc' = "PASSTHROUGH"
       ELSE /\ results' = results
            /\ pc' = "VALIDATED"
    /\ UNCHANGED <<ignore_smart_signatures, last_one_of_many, valid, raw, data,
                   plausible, prev, passes>>

\* _replace_maths: one turn of its while loop, or leaving it
replace_maths ==
    /\ pc = "VALIDATED"
    /\ IF Contains(data, KEYWORDS["math"])
       THEN /\ data' = ReplaceMathsBody(data)
            /\ valid' = (valid /\ ~_get_math_arg(data, "math").failed)
            /\ pc' = pc
            /\ passes' = passes
       ELSE /\ pc' = "MATH_RESOLVED"
            /\ passes' = Append(passes, PassNames[1])
            /\ UNCHANGED <<data, valid>>
    /\ UNCHANGED <<ignore_smart_signatures, last_one_of_many, raw, results,
                   plausible, prev>>

parse_raw_strings ==
    /\ pc = "MATH_RESOLVED"
    /\ data' = _parse_raw_strings(ignore_smart_signatures, data)
    /\ pc' = "RAW_STRING_RESOLVED"
    /\ passes' = Append(passes, PassNames[2])
    /\ UNCHANGED <<ignore_smart_signatures, last_one_of_many, valid, raw,
                   results, plausible, prev>>

parse_string_len ==
    /\ pc = "RAW_STRING_RESOLVED"
    /\ data' = _parse_string_len(ignore_smart_signatures, data)
    /\ pc' = "LEN_RESOLVED"
    /\ passes' = Append(passes, PassNames[3])
    /\ UNCHANGED <<ignore_smart_signatures, last_one_of_many, valid, raw,
                   results, plausible, prev>>

\* results[k] = str2int(v) inside try/except: kept on an exception
TryStr2int(old, string) ==
    LET n == str2int(string) IN IF n.none THEN old ELSE n.value

\* faulty variant of extract_fields: the fields are read from the string
\* parse() was called with, not from the output of the passes before
extract_fields_FromRaw ==
    /\ pc = "LEN_RESOLVED"
    /\ LET adjust == _get_math_arg(raw, "adjust")
           size   == _get_math_arg(raw, "filesize")
           jump   == _get_math_arg(raw, "jump")
       IN  /\ results' =
                 [results EXCEPT
                    !.adjust = adjust.value,
                    !.size   = size.value,
                    !.year   = TryStr2int(results.year, _get_keyword_arg(raw, "year")),
                    !.epoch  = TryStr2int(results.epoch, _get_keyword_arg(raw, "epoch")),
                    !.delay  = _get_keyword_arg(raw, "delay"),
                    !.jump   = jump.value]
           /\ valid' = (valid /\ ~adjust.failed /\ ~size.failed /\ ~jump.failed)
    /\ pc' = "FIELDS_EXTRACTED"
    /\ passes' = Append(passes, PassNames[4])
    /\ UNCHANGED <<ignore_smart_signatures, last_one_of_many, raw, data,
                   plausible, prev>>

\* the adjust, size, year, epoch, delay and jump assignments of parse()
extract_fields ==
    /\ pc = "LEN_RESOLVED"
    /\ LET adjust == _get_math_arg(data, "adjust")
           size   == _get_math_arg(data, "filesize")
           jump   == _get_math_arg(data, "jump")
       IN  /\ results' =
                 [results EXCEPT
                    !.adjust = adjust.value,
                    !.size   = size.value,
                    !.year   = TryStr2int(results.year, _get_keyword_arg(data, "year")),
                    !.epoch  = TryStr2int(results.epoch, _get_keyword_arg(data, "epoch")),
                    !.delay  = _get_keyword_arg(data, "delay"),
                    !.jump   = jump.value]
           /\ valid' = (valid /\ ~adjust.failed /\ ~size.failed /\ ~jump.failed)
    /\ pc' = "FIELDS_EXTRACTED"
    /\ passes' = Append(passes, PassNames[4])
    /\ UNCHANGED <<ignore_smart_signatures, last_one_of_many, raw, data,
                   plausible, prev>>

\* the _one_of_many test that closes parse(), with the filter's verdict
\* and the dictionary's iteration order as inputs
describe ==
    /\ pc = "FIELDS_EXTRACTED"
    /\ \E valid_result \in BOOLEAN, order \in KeywordOrders :
          LET r == _one_of_many(data, valid_result, last_one_of_many)
          IN  /\ plausible' = valid_result
              /\ last_one_of_many' = r.last
              /\ IF r.dup
                 THEN /\ results' = [results EXCEPT !.valid = valid]
                      /\ pc' = "DUPLICATE"
                      /\ passes' = Append(passes, PassNames[5])
                 ELSE /\ results' =
                            [results EXCEPT
                               !.name = StripChar(_get_keyword_arg(data, "filename"), QUOTE),
                               !.description =
                                   _strip_tags(ignore_smart_signatures, data, order),
                               !.valid = valid]
                      /\ pc' = "FINAL"
                      /\ passes' =
                            Append(Append(passes, PassNames[5]), PassNames[6])
    /\ UNCHANGED <<ignore_smart_signatures, valid, raw, data, prev>>

Returned == pc \in {"PASSTHROUGH", "DUPLICATE", "FINAL"}

\* parse() returns: its locals are gone, the instance keeps its fields
parse_return ==
    /\ Returned
    /\ pc' = "IDLE"
    /\ prev' = IF /\ pc # "PASSTHROUGH"
                   /\ plausible
                   /\ Contains(data, KEYWORDS["one-of-many"])
                THEN [marked |-> TRUE, head |-> SplitFirst(data, ","),
                      valid |-> valid]
                ELSE [NoCall EXCEPT !.valid = valid]
    /\ raw' = ""
    /\ data' = ""
    /\ results' = Defaults
    /\ plausible' = FALSE
    /\ passes' = <<>>
    /\ UNCHANGED <<ignore_smart_signatures, last_one_of_many, valid>>

Next ==
    \/ \E d \in Inputs : parse_begin(d)
    \/ validate
    \/ replace_maths
    \/ parse_raw_strings
    \/ parse_string_len
    \/ extract_fields
    \/ describe
    \/ parse_return

Spec == Init /\ [][Next]_vars

(***************************************************************************)
(* Properties.                                                             *)
(***************************************************************************)
\* what parse() returns for a string it does not interpret
Verbatim(d) == [Defaults EXCEPT !.description = d]

\* the call was interpreted: it passed the opening test of parse()
Interpreted == pc \in {"FINAL", "DUPLICATE"}

\* the quoted data holds the opening delimiter and the text of a keyword
QuotedForgery(d) ==
    LET q == get_quoted_strings(d)
    IN  /\ Contains(q, KEYWORD_DELIM_START)
        /\ \E name \in DOMAIN KEYWORDS : Contains(q, KEYWORDS[name])

InjectionExample == "\"{jump-to-offset:0}\" trailer {file-name:\"x\"}"

\* C1: a string whose quoted data holds '{' and the text of a keyword is
\* returned verbatim as the description, with every other field at its
\* default and valid true.
C1_InjectionContainment ==
    (Returned /\ QuotedForgery(raw)) => results = Verbatim(raw)

C1_Witness ==
    /\ pc = "PASSTHROUGH"
    /\ ~ignore_smart_signatures
    /\ raw = InjectionExample
    /\ results.description = InjectionExample
    /\ results.name = ""

\* the keywords whose argument becomes an output field
DirectiveField ==
    [k \in {"filename", "delay", "jump", "filesize", "adjust", "year", "epoch"} |->
        CASE k = "filename" -> "name"
          [] k = "delay"    -> "delay"
          [] k = "jump"     -> "jump"
          [] k = "filesize" -> "size"
          [] k = "adjust"   -> "adjust"
          [] k = "year"     -> "year"
          [] k = "epoch"    -> "epoch"]

\* every occurrence of the keyword in d lies inside the payload of the
\* raw-string tag of d
OnlyInPayload(d, keyword) ==
    LET payload == _get_keyword_arg(d, "raw-string")
        first   == Find(d, KEYWORDS["raw-string"]) + Len(KEYWORDS["raw-string"])
        last    == first + Len(payload) - 1
        occ     == Occurs(d, KEYWORDS[keyword])
    IN  /\ occ # {}
        /\ \A i \in occ : first <= i /\ i + Len(KEYWORDS[keyword]) - 1 <= last

\* every occurrence of the keyword in d lies inside the quoted data of d
OnlyInQuoted(d, keyword) ==
    LET q   == Occurs(d, QUOTE)
        occ == Occurs(d, KEYWORDS[keyword])
    IN  /\ occ # {}
        /\ \A i \in occ :
               /\ \E a \in q : a < i
               /\ \E b \in q : i + Len(KEYWORDS[keyword]) - 1 < b

\* C2: no output field takes its value from tag syntax that occurs only in
\* file-supplied content, that is inside the quoted data or inside the
\* payload of the raw-string tag: such a field keeps its default, whatever
\* the content says.
C2_NoForgedDirective ==
    Returned =>
        \A k \in DOMAIN DirectiveField :
            (OnlyInPayload(raw, k) \/ OnlyInQuoted(raw, k)) =>
                results[DirectiveField[k]] = Defaults[DirectiveField[k]]

\* C3: the validator's verdict is the same at every pass of one call: a
\* working string that was accepted is still judged valid where the
\* raw-string and string-len passes test it again, so neither is skipped.
C3_UniformVerdict ==
    pc \in {"MATH_RESOLVED", "RAW_STRING_RESOLVED"} => _is_valid(data)

MathExample == "{math:4+4}{jump-to-offset:{math:4+4}}"

\* C4: with interpretation disabled every call returns its input verbatim
\* as the description, all other fields at their defaults and valid true.
C4_DisabledMode ==
    (ignore_smart_signatures /\ Returned) => results = Verbatim(raw)

C4_Witness ==
    /\ ignore_smart_signatures
    /\ pc = "PASSTHROUGH"
    /\ raw = MathExample
    /\ results.description = MathExample
    /\ results.jump = 0

\* d holds the text of no keyword
TagFree(d) == \A name \in DOMAIN KEYWORDS : ~Contains(d, KEYWORDS[name])

\* C5: with interpretation enabled a tag-free input is returned as the
\* description with every other field at its default, whatever calls came
\* before.
C5_TagFreeDefaults ==
    (~ignore_smart_signatures /\ Returned /\ TagFree(raw)) =>
        results = Verbatim(raw)

\* every math tag of d is closed and holds no other math tag
ClosedMath(d) ==
    \A i \in Occurs(d, KEYWORDS["math"]) :
        LET rest == From(d, i + Len(KEYWORDS["math"]))
            j    == Find(rest, KEYWORD_DELIM_END)
        IN  j # 0 /\ ~Contains(Upto(rest, j - 1), KEYWORDS["math"])

RECURSIVE MathResolved(_)
\* d with each math tag, read left to right, replaced by the decimal text of
\* the value of its argument (0 when it has none)
MathResolved(d) ==
    LET i    == Find(d, KEYWORDS["math"])
        rest == From(d, i + Len(KEYWORDS["math"]))
        j    == Find(rest, KEYWORD_DELIM_END)
        m    == MathExpression(Upto(rest, j - 1))
    IN  IF i = 0 THEN d
        ELSE Upto(d, i - 1) \o ToDecimal(IF m.none THEN 0 ELSE m.value)
                 \o MathResolved(From(rest, j + 1))

\* C6: when the math pass of an accepted input with closed, non-nested math
\* tags is over, no math tag is left and each one stands replaced by the
\* decimal text of its value; the example then yields jump 8.
C6_MathFixpoint ==
    /\ (pc = "MATH_RESOLVED" /\ ClosedMath(raw)) =>
           /\ ~Contains(data, KEYWORDS["math"])
           /\ data = MathResolved(raw)
    /\ (Interpreted /\ raw = MathExample) => results.jump = 8

C6_Witness ==
    /\ pc = "MATH_RESOLVED"
    /\ raw = MathExample
    /\ data = "8{jump-to-offset:8}"

RawExample == "{raw-replace}{raw-string:HELLOWORLD}{raw-string-length:5}"

\* the raw-string tag of d has an argument and the raw-size argument is an
\* optionally signed run of digits
RawSized(d) ==
    /\ _get_keyword_arg(d, "raw-string") # ""
    /\ RawSizeMatches(_get_keyword_arg(d, "raw-size"))

\* the text before the first raw-string tag of d, each raw-replace marker in
\* it replaced by the quoted payload cut to the declared size
RawExpected(d) ==
    LET payload == _get_keyword_arg(d, "raw-string")
        size    == str2int(_get_keyword_arg(d, "raw-size")).value
    IN  Replace(SplitFirst(d, KEYWORDS["raw-string"]), KEYWORDS["raw-replace"],
                QUOTE \o Slice(payload, size) \o QUOTE)

\* C7: with a non-empty raw-string argument and a well-formed raw-size, the
\* raw-string pass leaves exactly the text before the first raw-string tag
\* with its raw-replace markers replaced by the quoted, cut payload: no
\* raw-string tag and no marker is left.
C7_RawStringTruncation ==
    [][(pc = "MATH_RESOLVED" /\ RawSized(data)) =>
           /\ data' = RawExpected(data)
           /\ ~Contains(data', KEYWORDS["raw-string"])
           /\ ~Contains(data', KEYWORDS["raw-replace"])]_vars

C7_Witness ==
    /\ pc = "FINAL"
    /\ raw = RawExample
    /\ data = "\"HELLO\""
    /\ results.description = "\"HELLO\""

\* C8: an accepted, plausible one-of-many result that follows one with the
\* same text before the first comma is a duplicate: name and description
\* stay empty, jump and adjust are those of its own tags.
C8_OneOfManySuppression ==
    (/\ Interpreted
     /\ plausible
     /\ Contains(data, KEYWORDS["one-of-many"])
     /\ prev.marked
     /\ prev.head = SplitFirst(data, ",")) =>
        /\ pc = "DUPLICATE"
        /\ results.name = ""
        /\ results.description = ""
        /\ results.jump = _get_math_arg(data, "jump").value
        /\ results.adjust = _get_math_arg(data, "adjust").value

C8_Witness ==
    /\ pc = "DUPLICATE"
    /\ prev.marked
    /\ prev.head = "ab{one-of-many}"
    /\ raw = "ab{one-of-many}, d{jump-to-offset:4}{offset-adjust:2}{file-name:\"x\"}"
    /\ results.jump = 4
    /\ results.adjust = 2
    /\ results.description = ""

\* the argument of the keyword is there and is no number to the extraction
\* parse() applies to it
ArgumentFails(d, keyword) ==
    LET arg == _get_keyword_arg(d, keyword)
    IN  /\ arg # ""
        /\ IF keyword \in {"year", "epoch"} THEN str2int(arg).none
           ELSE MathExpression(arg).none

\* C9: in an interpreted call, a numeric tag whose argument fails numeric
\* extraction leaves its field 0 and the returned valid flag false.
C9_FailureClearsValid ==
    Interpreted =>
        \A k \in NumericKeywords :
            ArgumentFails(data, k) =>
                (results[DirectiveField[k]] = 0 /\ ~results.valid)

\* C10: stripping the tags of a stripped working string changes nothing.
C10_StripIdempotent ==
    pc = "FINAL" =>
        \A order \in KeywordOrders :
            \A once \in {_strip_tags(ignore_smart_signatures, data, order)} :
                _strip_tags(ignore_smart_signatures, once, order) = once

\* C11: parse() terminates on every input: every turn of the math
\* substitution loop that finds a math keyword in the working string
\* changes the working string, so the loop cannot repeat one state for ever.
C11_MathLoopProgress ==
    (pc = "VALIDATED" /\ Contains(data, KEYWORDS["math"])) =>
        ReplaceMathsBody(data) # data

\* C12: an interpreted result whose working string has no one-of-many marker
\* is never reported as a duplicate, and when the filter accepts it the
\* stored group key is cleared, whatever earlier calls stored.
C12_MarkerRequired ==
    (Interpreted /\ ~Contains(data, KEYWORDS["one-of-many"])) =>
        /\ pc = "FINAL"
        /\ plausible => last_one_of_many = None

\* C13: a call is reported as a duplicate only of a stored group key that
\* is not the empty string.
C13_EmptyKeyNeverMatches ==
    pc = "DUPLICATE" => (last_one_of_many.set /\ last_one_of_many.key # "")

\* the passes a call has completed at each position inside parse()
PassesAt ==
    [p \in {"IDLE", "RAW", "VALIDATED", "PASSTHROUGH", "MATH_RESOLVED",
            "RAW_STRING_RESOLVED", "LEN_RESOLVED", "FIELDS_EXTRACTED",
            "DUPLICATE", "FINAL"} |->
        CASE p = "MATH_RESOLVED"       -> SubSeq(PassNames, 1, 1)
          [] p = "RAW_STRING_RESOLVED" -> SubSeq(PassNames, 1, 2)
          [] p = "LEN_RESOLVED"        -> SubSeq(PassNames, 1, 3)
          [] p = "FIELDS_EXTRACTED"    -> SubSeq(PassNames, 1, 4)
          [] p = "DUPLICATE"           -> SubSeq(PassNames, 1, 5)
          [] p = "FINAL"               -> PassNames
          [] OTHER                     -> <<>>]

\* inputs whose raw-size, jump, file-size or adjust argument is a math tag,
\* with the value the field or the description must then have
MathArgumentRead ==
    /\ \A e \in MathExprs :
          raw = Tag("math", e) \o Tag("jump", Tag("math", e)) =>
              results.jump = MathExpression(e).value
    /\ raw = Tag("filesize", Tag("math", "2+2")) => results.size = 4
    /\ raw = Tag("math", "1+2") \o " and " \o Tag("math", "2-4") \o ", "
                 \o Tag("adjust", Tag("math", "1+2")) =>
           results.adjust = 3
    /\ raw = KEYWORDS["raw-replace"] \o Tag("raw-string", "HELLOWORLD")
                 \o Tag("raw-size", Tag("math", "2+3")) =>
           data = QUOTE \o "HELLO" \o QUOTE

MalformedRawSize(arg) ==
    LET body == IF arg # "" /\ Char(arg, 1) = "-" THEN From(arg, 2) ELSE arg
    IN  body = "" \/ \E i \in 1..Len(body) : ~IsDigit(Char(body, i))

\* C15: when the working string holds a raw-string tag and its raw-size
\* argument is absent or is not a decimal integer, the raw-string resolver
\* leaves the working string as it is, the call goes on to the next pass,
\* and the valid flag keeps its value.
C15_MalformedRawSize ==
    [][(/\ pc = "MATH_RESOLVED"
        /\ Contains(data, KEYWORDS["raw-string"])
        /\ MalformedRawSize(_get_keyword_arg(data, "raw-size")))
           => (/\ pc' = "RAW_STRING_RESOLVED"
               /\ data' = data
               /\ valid' = valid)]_vars

\* the resolver has run on a raw-string tag whose size is '5x', and on one
\* with no raw-size tag at all
C15_Witness ==
    /\ pc = "RAW_STRING_RESOLVED"
    /\ raw \in {KEYWORDS["raw-replace"] \o Tag("raw-string", "HELLOWORLD")
                    \o Tag("raw-size", "5x"),
                KEYWORDS["raw-replace"] \o Tag("raw-string", "HELLOWORLD")}
    /\ data = raw
    /\ Contains(data, KEYWORDS["raw-replace"])
    /\ valid

\* the text before the first string-len tag, each {string-len} marker in it
\* replaced by the decimal length of the tag's argument
StringLenExpected(d) ==
    LET keyword == KEYWORDS["string-len"]
        at      == Find(d, keyword)
        rest    == From(d, at + Len(keyword))
        close   == Find(rest, KEYWORD_DELIM_END)
        arg     == IF close = 0 THEN rest ELSE Upto(rest, close - 1)
    IN  Replace(Upto(d, at - 1), KEYWORDS["string-len-replace"],
                ToDecimal(Len(arg)))

\* C16: when the working string handed to the string-length resolver is
\* accepted by the validator and its string-len tag has a non-empty
\* argument, the resolver returns the text before the first string-len tag
\* with every {string-len} marker replaced by the decimal length of the
\* argument; the tag and all that follows it are gone.
C16_StringLenResolution ==
    [][(/\ pc = "RAW_STRING_RESOLVED"
        /\ _is_valid(data)
        /\ _get_keyword_arg(data, "string-len") # "")
           => (/\ pc' = "LEN_RESOLVED"
               /\ data' = StringLenExpected(data)
               /\ ~Contains(data', KEYWORDS["string-len"])
               /\ ~Contains(data', KEYWORDS["string-len-replace"]))]_vars

\* two markers resolved to 5, the tag, the trailer and the year tag dropped
C16_Witness ==
    /\ pc = "LEN_RESOLVED"
    /\ raw = "n=" \o KEYWORDS["string-len-replace"] \o " "
                 \o KEYWORDS["string-len-replace"]
                 \o Tag("string-len", "hello") \o "trail"
                 \o Tag("year", "1999")
    /\ data = "n=5 5"

\* C17: a call that does not reach a positive plausibility check (disabled,
\* rejected by the validator, or rejected by the filter) is not reported
\* as a duplicate and leaves the stored group key as it found it: the key
\* changes only in the duplicate check of a call the filter accepts.
C17_KeyFrame ==
    [][/\ pc' = "PASSTHROUGH" =>
              last_one_of_many' = last_one_of_many
       /\ (pc = "FIELDS_EXTRACTED" /\ ~plausible') =>
              (pc' = "FINAL" /\ last_one_of_many' = last_one_of_many)
       /\ pc' = "DUPLICATE" => plausible'
       /\ last_one_of_many' # last_one_of_many =>
              (pc = "FIELDS_EXTRACTED" /\ plausible')]_vars

\* the filter rejected a working string that begins with the stored key and
\* carries the marker: it is described, and the key 'ab' is still stored
C17_Witness ==
    /\ pc = "FINAL"
    /\ ~plausible
    /\ last_one_of_many = [set |-> TRUE, key |-> "ab"]
    /\ StartsWith(data, "ab")
    /\ Contains(data, KEYWORDS["one-of-many"])
    /\ results.description # ""

\* the math loop run on d as a function: the string it ends with and
\* whether one of its evaluations failed (turns bounded by fuel)
RECURSIVE MathPass(_, _, _)
MathPass(d, failed, fuel) ==
    IF fuel = 0 \/ ~Contains(d, KEYWORDS["math"])
    THEN [data |-> d, failed |-> failed]
    ELSE MathPass(ReplaceMathsBody(d),
                  failed \/ _get_math_arg(d, "math").failed, fuel - 1)

\* a numeric extraction of the call on d fails: in the math loop, or for
\* adjust, file-size or jump on the resolved working string
OwnFailure(d) ==
    \E m \in {MathPass(d, FALSE, Len(d))} :
      \E w \in {_parse_string_len(FALSE, _parse_raw_strings(FALSE, m.data))} :
          \/ m.failed
          \/ _get_math_arg(w, "adjust").failed
          \/ _get_math_arg(w, "filesize").failed
          \/ _get_math_arg(w, "jump").failed

\* C18: the valid value a call returns is a function of that call's input
\* (true for a disabled or rejected call, otherwise false exactly when one
\* of the call's own numeric extractions fails), whatever earlier calls on
\* the instance left in the flag.
C18_ValidPerCall ==
    Returned =>
        results.valid = (pc = "PASSTHROUGH" \/ ~OwnFailure(raw))

\* the call before this one returned valid = false; this one, which reads
\* a jump offset, returns valid = true
C18_Witness ==
    /\ pc = "FINAL"
    /\ ~prev.valid
    /\ results.valid
    /\ raw = Tag("jump", "7") \o Tag("delay", "gz")
                 \o Tag("filename", "\"x\"") \o " end"
    /\ results.jump = 7

====
